---- MODULE Spec2Model ----
(***************************************************************************)
(* Model of src/main.py: the /analizar/ endpoint of the sentiment backend. *)
(*                                                                         *)
(* One request is handled at a time by analizar_video, which awaits        *)
(* obtener_info_video, then obtener_comentarios_youtube (a paging loop     *)
(* over the external commentThreads API), then analizar_sentimientos_vader *)
(* and finally assembles the response.  The external API is the            *)
(* environment: what it answers to a page token (api) and whether a client *)
(* can be built (buildOk) are fixed when the process starts, what it       *)
(* answers to the metadata call is chosen per call.                        *)
(*                                                                         *)
(* Compound scores are VADER's, which are rounded to four decimals; they   *)
(* are kept as integers in units of 0.0001, so 0.05 is 500.                *)
(***************************************************************************)
EXTENDS Integers, Sequences, FiniteSets, TLC

VARIABLES
    API_KEY,            \* module global read once at process start (l.34)
    api,                \* external commentThreads API: page token -> answer
    buildOk,            \* whether build("youtube", "v3", ...) succeeds here
    pc,                 \* position of the process / of the request handler
    query,              \* the query string of the request being handled
    video_info,         \* analizar_video's local (l.171)
    comentarios,        \* the fetcher's list (l.89), then the handler's (l.174)
    next_page_token,    \* the fetcher's local (l.90, l.108)
    response,           \* the HTTP response of the request, status 0 = none yet
    prev,               \* response of the accepted request handled before
    builds,             \* build() calls made during this request
    metaCalls,          \* videos().list calls issued during this request
    pageCalls,          \* commentThreads().list calls issued (counted to CallCap)
    nonEmptyPages,      \* page answers of this request holding >= 1 item
    served,             \* all items the API has answered during this request
    fetch,              \* outcome of the comment fetch of this request
    metaOutcome,        \* what the metadata call of this request did
    lista_comentarios,  \* analizar_sentimientos_vader's argument (l.125)
    idx,                \* 1-based position of its for loop (l.134)
    counts,             \* its counts dict (l.131)
    classified_list     \* its classified_list (l.132)

vars == <<API_KEY, api, buildOk, pc, query, video_info, comentarios, next_page_token,
          response, prev, builds, metaCalls, pageCalls, nonEmptyPages, served, fetch,
          metaOutcome, lista_comentarios, idx, counts, classified_list>>

envVars == <<API_KEY, api, buildOk>>
fetcherVars == <<comentarios, next_page_token, pageCalls, nonEmptyPages, served, fetch>>
vaderVars == <<lista_comentarios, idx, counts, classified_list>>

-----------------------------------------------------------------------------
(* Bounds of the model *)

\* Distinct page tokens the external API hands out (besides "no token").
NumTokens == 1
\* pageCalls counts up to CallCap and stays there.
CallCap == 3
\* Longest input list of the classifier when it is checked on its own.
MaxLen == 3

(* Program constants *)

\* while len(comentarios) < 100
LoopLimit == 100
\* maxResults=100: the most items one page answer holds
MaxResults == 100
\* return comentarios[:100]
SliceLimit == 100
\* Query(min_length=11, max_length=11)
MinLength == 11
MaxLength == 11
\* compound_score >= 0.05 and compound_score <= -0.05, in units of 0.0001
PosThreshold == 500
NegThreshold == -500

-----------------------------------------------------------------------------
(* Values *)

\* Python's None; the empty token of next_page_token = None.
None == <<>>
NoToken == 0

Min(a, b) == IF a < b THEN a ELSE b

\* `if not API_KEY`: None and the empty string are both falsy.  The unset
\* variable is represented by the empty string.
KeyValues == {"", "AIzaKey"}
Falsy(key) == key = ""

\* Query strings a client can send: video_id missing, too short, of the
\* required length, too long.
Queries ==
    { [has |-> FALSE, video_id |-> ""],
      [has |-> TRUE, video_id |-> "short"],
      [has |-> TRUE, video_id |-> "dQw4w9WgXcQ"],
      [has |-> TRUE, video_id |-> "dQw4w9WgXcQ_"] }

\* A validation that only requires the parameter to be present.
ValidQuerySinLongitud(q) == q.has

\* The framework's validation of the declared Query parameter.
ValidQuery(q) ==
    /\ q.has
    /\ Len(q.video_id) >= MinLength
    /\ Len(q.video_id) <= MaxLength

NoResponse == [status |-> 0]
ErrorResponse(code, text) == [status |-> code, detail |-> text]

-----------------------------------------------------------------------------
(* The external API *)

Tokens == 1..NumTokens
Tokens0 == {NoToken} \cup Tokens

\* Sizes of a page answer: empty, one item, a full page.
PageSizes == {0, 1, MaxResults}

\* An answer to commentThreads().list(pageToken=t): execute() raises, or a
\* page of n items with nextPageToken (NoToken when the key is absent).
PageAnswers ==
    {[raises |-> TRUE, n |-> 0, nextPageToken |-> NoToken]}
    \cup [raises : {FALSE}, n : PageSizes, nextPageToken : Tokens0]

\* textDisplay of the items of the page behind token t: item j of that page
\* is the comment numbered t * MaxResults + j.
PageItems(t, n) == [j \in 1..n |-> t * MaxResults + j]

\* A key the snippet does not hold.
Absent == "<absent>"
Get(d, k, default) == IF d[k] = Absent THEN default ELSE d[k]

FullSnippet ==
    [title |-> "Never Gonna", channelTitle |-> "Rick", thumbnail |-> "http://i/m.jpg",
     publishedAt |-> "2009-10-25"]
BareSnippet ==
    [title |-> Absent, channelTitle |-> Absent, thumbnail |-> Absent,
     publishedAt |-> Absent]

\* An answer to videos().list(id=video_id): execute() raises, no item, or
\* one item with its snippet.
MetaAnswers ==
    { [raises |-> TRUE, items |-> <<>>],
      [raises |-> FALSE, items |-> <<>>],
      [raises |-> FALSE, items |-> <<FullSnippet>>],
      [raises |-> FALSE, items |-> <<BareSnippet>>] }

-----------------------------------------------------------------------------
(* The scorer *)

\* analyzer.polarity_scores(c)['compound'] for the comments of the model:
\* the scores around both thresholds, zero and the two ends of the range.
ScoreTable == <<0, 500, -500, 499, -499, 501, -501, 10000, -10000>>
Compound(c) == ScoreTable[(c % Len(ScoreTable)) + 1]

Labels == {"Positivo", "Neutral", "Negativo"}

-----------------------------------------------------------------------------
(* obtener_info_video (l.43-73) *)

\* The record built at l.64-69.
VideoInfo(video_data) ==
    [title |-> Get(video_data, "title", "Titulo no disponible"),
     channel |-> Get(video_data, "channelTitle", "Canal no disponible"),
     thumbnail |-> Get(video_data, "thumbnail", ""),
     published_at |-> Get(video_data, "publishedAt", "")]

\* The function without its key check at l.47-48.
ObtenerInfoVideoSinGuarda(key, ok, answer) ==
    IF ~ok
    THEN [raised |-> FALSE, built |-> TRUE, called |-> FALSE, value |-> None]
    ELSE IF answer.raises
    THEN [raised |-> FALSE, built |-> TRUE, called |-> TRUE, value |-> None]
    ELSE IF answer.items = <<>>
    THEN [raised |-> FALSE, built |-> TRUE, called |-> TRUE, value |-> None]
    ELSE [raised |-> FALSE, built |-> TRUE, called |-> TRUE,
          value |-> VideoInfo(answer.items[1])]

\* The function with an except clause that lets the exception through.
ObtenerInfoVideoPropaga(key, ok, answer) ==
    IF Falsy(key)
    THEN [raised |-> FALSE, built |-> FALSE, called |-> FALSE, value |-> None]
    ELSE IF ~ok
    THEN [raised |-> TRUE, built |-> TRUE, called |-> FALSE, value |-> None]
    ELSE IF answer.raises
    THEN [raised |-> TRUE, built |-> TRUE, called |-> TRUE, value |-> None]
    ELSE IF answer.items = <<>>
    THEN [raised |-> FALSE, built |-> TRUE, called |-> TRUE, value |-> None]
    ELSE [raised |-> FALSE, built |-> TRUE, called |-> TRUE,
          value |-> VideoInfo(answer.items[1])]

\* What the function does when build() succeeds or not (ok) and execute()
\* answers: whether an exception leaves it, whether it built a client,
\* whether it issued the external call, and the value it returns.
ObtenerInfoVideo(key, ok, answer) ==
    IF Falsy(key)
    THEN [raised |-> FALSE, built |-> FALSE, called |-> FALSE, value |-> None]
    ELSE IF ~ok
    THEN [raised |-> FALSE, built |-> TRUE, called |-> FALSE, value |-> None]
    ELSE IF answer.raises
    THEN [raised |-> FALSE, built |-> TRUE, called |-> TRUE, value |-> None]
    ELSE IF answer.items = <<>>
    THEN [raised |-> FALSE, built |-> TRUE, called |-> TRUE, value |-> None]
    ELSE [raised |-> FALSE, built |-> TRUE, called |-> TRUE,
          value |-> VideoInfo(answer.items[1])]

-----------------------------------------------------------------------------
(* obtener_comentarios_youtube (l.77-121) *)

\* A loop that only a missing page token ends.
WhileCondSinTope(c) == TRUE

\* while len(comentarios) < 100 (l.94)
WhileCond(c) == Len(c) < LoopLimit

\* The return without the slice.
SliceEntera(c) == c

\* comentarios[:100] (l.114)
Slice(c) == SubSeq(c, 1, Min(SliceLimit, Len(c)))

\* An except clause that returns what was accumulated.
OnErrorDevuelve(c) == [raised |-> FALSE, status |-> 200, value |-> c]

\* except Exception (l.116-121): whatever was accumulated is dropped and an
\* HTTPException with status 500 is raised.
OnError(c) == [raised |-> TRUE, status |-> 500, value |-> <<>>]

-----------------------------------------------------------------------------
(* analizar_sentimientos_vader (l.125-153) *)

InitCounts == [l \in Labels |-> 0]

Entry(c, s) == [comentario |-> c, sentimiento |-> s]

\* The loop body without the increment of the else branch (l.146).
ClasificarPasoSinNeutral(st, comentario) ==
    LET compound_score == Compound(comentario) IN
    IF compound_score >= PosThreshold
    THEN [counts |-> [st.counts EXCEPT !["Positivo"] = @ + 1],
          classified_list |-> Append(st.classified_list, Entry(comentario, "Positivo"))]
    ELSE IF compound_score <= NegThreshold
    THEN [counts |-> [st.counts EXCEPT !["Negativo"] = @ + 1],
          classified_list |-> Append(st.classified_list, Entry(comentario, "Negativo"))]
    ELSE [counts |-> st.counts,
          classified_list |-> Append(st.classified_list, Entry(comentario, "Neutral"))]

\* The loop body inserting at the front of classified_list.
ClasificarPasoAlFrente(st, comentario) ==
    LET compound_score == Compound(comentario) IN
    IF compound_score >= PosThreshold
    THEN [counts |-> [st.counts EXCEPT !["Positivo"] = @ + 1],
          classified_list |-> <<Entry(comentario, "Positivo")>> \o st.classified_list]
    ELSE IF compound_score <= NegThreshold
    THEN [counts |-> [st.counts EXCEPT !["Negativo"] = @ + 1],
          classified_list |-> <<Entry(comentario, "Negativo")>> \o st.classified_list]
    ELSE [counts |-> [st.counts EXCEPT !["Neutral"] = @ + 1],
          classified_list |-> <<Entry(comentario, "Neutral")>> \o st.classified_list]

\* The loop body with strict comparisons at both thresholds.
ClasificarPasoEstricto(st, comentario) ==
    LET compound_score == Compound(comentario) IN
    IF compound_score > PosThreshold
    THEN [counts |-> [st.counts EXCEPT !["Positivo"] = @ + 1],
          classified_list |-> Append(st.classified_list, Entry(comentario, "Positivo"))]
    ELSE IF compound_score < NegThreshold
    THEN [counts |-> [st.counts EXCEPT !["Negativo"] = @ + 1],
          classified_list |-> Append(st.classified_list, Entry(comentario, "Negativo"))]
    ELSE [counts |-> [st.counts EXCEPT !["Neutral"] = @ + 1],
          classified_list |-> Append(st.classified_list, Entry(comentario, "Neutral"))]

\* The body of the for loop (l.135-151) on the function's two accumulators.
ClasificarPaso(st, comentario) ==
    LET compound_score == Compound(comentario) IN
    IF compound_score >= PosThreshold
    THEN [counts |-> [st.counts EXCEPT !["Positivo"] = @ + 1],
          classified_list |-> Append(st.classified_list, Entry(comentario, "Positivo"))]
    ELSE IF compound_score <= NegThreshold
    THEN [counts |-> [st.counts EXCEPT !["Negativo"] = @ + 1],
          classified_list |-> Append(st.classified_list, Entry(comentario, "Negativo"))]
    ELSE [counts |-> [st.counts EXCEPT !["Neutral"] = @ + 1],
          classified_list |-> Append(st.classified_list, Entry(comentario, "Neutral"))]

\* The for loop (l.134) over lista[lo..hi], in order, from accumulators st:
\* the first half of the range, then the second half from what the first
\* left.  TLC passes operator arguments unevaluated; binding the accumulators
\* of the first half through a singleton set evaluates them before the
\* second half starts, which keeps the evaluation shallow.
RECURSIVE VaderLoop(_, _, _, _)
VaderLoop(st, lista, lo, hi) ==
    IF lo > hi THEN st
    ELSE IF lo = hi THEN ClasificarPaso(st, lista[lo])
    ELSE LET mid == (lo + hi) \div 2
         IN  CHOOSE r \in {VaderLoop(s, lista, mid + 1, hi) :
                               s \in {VaderLoop(st, lista, lo, mid)}} : TRUE

\* The whole function: the loop run over lista from empty accumulators.
AnalizarSentimientosVader(lista) ==
    VaderLoop([counts |-> InitCounts, classified_list |-> <<>>], lista, 1, Len(lista))

-----------------------------------------------------------------------------
(* The process and the request handler analizar_video (l.157-192) *)

PageApis == [Tokens0 -> PageAnswers]

Init ==
    /\ API_KEY \in KeyValues
    /\ api \in PageApis
    /\ buildOk \in BOOLEAN
    /\ pc = "idle"
    /\ query = [has |-> FALSE, video_id |-> ""]
    /\ video_info = None
    /\ comentarios = <<>>
    /\ next_page_token = NoToken
    /\ response = NoResponse
    /\ prev = NoResponse
    /\ builds = 0
    /\ metaCalls = 0
    /\ pageCalls = 0
    /\ nonEmptyPages = 0
    /\ served = <<>>
    /\ fetch = "none"
    /\ metaOutcome = "none"
    /\ lista_comentarios = <<>>
    /\ idx = 1
    /\ counts = InitCounts
    /\ classified_list = <<>>

\* A GET /analizar/ arrives while no request is being handled.  The framework
\* validates the declared parameter (l.159-164) before the handler's body
\* runs and answers a validation error (status 422) itself.  prev keeps the
\* response of the last request that passed the validation.
Request(q) ==
    /\ pc \in {"idle", "done"}
    /\ query' = q
    /\ prev' = IF response.status \in {0, 422} THEN prev ELSE response
    /\ video_info' = None
    /\ comentarios' = <<>>
    /\ next_page_token' = NoToken
    /\ builds' = 0
    /\ metaCalls' = 0
    /\ pageCalls' = 0
    /\ nonEmptyPages' = 0
    /\ served' = <<>>
    /\ fetch' = "none"
    /\ metaOutcome' = "none"
    /\ lista_comentarios' = <<>>
    /\ idx' = 1
    /\ counts' = InitCounts
    /\ classified_list' = <<>>
    /\ IF ValidQuery(q)
       THEN pc' = "meta" /\ response' = NoResponse
       ELSE pc' = "done" /\ response' = ErrorResponse(422, "validation error")
    /\ UNCHANGED envVars

\* Paso A (l.171): await obtener_info_video(video_id).  An exception leaving
\* the call would leave the handler and become the framework's 500.
FetchMetadata ==
    /\ pc = "meta"
    /\ \E answer \in MetaAnswers :
         LET r == ObtenerInfoVideo(API_KEY, buildOk, answer) IN
         /\ builds' = IF r.built THEN builds + 1 ELSE builds
         /\ metaCalls' = IF r.called THEN metaCalls + 1 ELSE metaCalls
         /\ metaOutcome' = IF ~r.built THEN "not_called"
                           ELSE IF ~r.called \/ answer.raises THEN "raises"
                           ELSE IF answer.items = <<>> THEN "no_items"
                           ELSE "items"
         /\ IF r.raised
            THEN /\ pc' = "done"
                 /\ response' = ErrorResponse(500, "Internal Server Error")
                 /\ video_info' = video_info
            ELSE /\ pc' = "comments"
                 /\ response' = response
                 /\ video_info' = r.value
    /\ UNCHANGED <<envVars, query, prev, fetcherVars, vaderVars>>

\* obtener_comentarios_youtube returns c (l.114) to the handler, which
\* answers 404 on an empty list (l.176-180) and goes on to Paso C otherwise.
Returned(c) ==
    /\ comentarios' = Slice(c)
    /\ IF Slice(c) = <<>>
       THEN /\ pc' = "done"
            /\ response' = ErrorResponse(404, "No se encontraron comentarios para este video.")
       ELSE /\ pc' = "classify"
            /\ response' = response

\* An exception inside the try block (l.87-114) reaches the except clause.
Failed(c) ==
    LET e == OnError(c) IN
    IF e.raised
    THEN /\ pc' = "done"
         /\ response' = ErrorResponse(e.status, "Error al contactar la API de YouTube")
         /\ comentarios' = comentarios
    ELSE Returned(e.value)

\* Paso B (l.174), up to the first page call: the key check (l.81-85), the
\* client built, the locals initialised and the loop condition tested.
BeginComments ==
    /\ pc = "comments"
    /\ IF Falsy(API_KEY)
       THEN /\ pc' = "done"
            /\ response' = ErrorResponse(503, "Servicio no disponible")
            /\ UNCHANGED <<builds, fetcherVars>>
       ELSE /\ builds' = builds + 1
            /\ next_page_token' = NoToken
            /\ UNCHANGED <<pageCalls, nonEmptyPages, served>>
            /\ IF ~buildOk
               THEN fetch' = "raised" /\ Failed(<<>>)
               ELSE IF WhileCond(<<>>)
               THEN /\ fetch' = "running"
                    /\ pc' = "page"
                    /\ comentarios' = <<>>
                    /\ response' = response
               ELSE fetch' = "returned" /\ Returned(<<>>)
    /\ UNCHANGED <<envVars, query, video_info, prev, metaCalls, metaOutcome, vaderVars>>

\* request.execute() is issued (l.95-102) with the current page token.
SendPage ==
    /\ pc = "page"
    /\ pc' = "await_page"
    /\ pageCalls' = Min(pageCalls + 1, CallCap)
    /\ UNCHANGED <<envVars, query, video_info, response, prev, builds, metaCalls,
                   metaOutcome, comentarios, next_page_token, nonEmptyPages,
                   served, fetch, vaderVars>>

\* The call returns or raises; the rest of the loop body runs (l.104-111),
\* then the loop condition, and on leaving the loop the return (l.114).
ReceivePage ==
    /\ pc = "await_page"
    /\ LET answer == api[next_page_token] IN
       IF answer.raises
       THEN /\ fetch' = "raised"
            /\ Failed(comentarios)
            /\ UNCHANGED <<next_page_token, nonEmptyPages, served>>
       ELSE LET items == PageItems(next_page_token, answer.n)
                c2 == comentarios \o items
            IN  /\ served' = served \o items
                /\ nonEmptyPages' = IF answer.n > 0
                                    THEN Min(nonEmptyPages + 1, LoopLimit + 1)
                                    ELSE nonEmptyPages
                /\ next_page_token' = answer.nextPageToken
                /\ IF answer.nextPageToken = NoToken \/ ~WhileCond(c2)
                   THEN fetch' = "returned" /\ Returned(c2)
                   ELSE /\ fetch' = fetch
                        /\ pc' = "page"
                        /\ comentarios' = c2
                        /\ response' = response
    /\ UNCHANGED <<envVars, query, video_info, prev, builds, metaCalls, metaOutcome,
                   pageCalls, vaderVars>>

\* Paso C and Paso D (l.183-192): the classifier runs over comentarios and
\* the response is assembled.
ClassifyAndRespond ==
    /\ pc = "classify"
    /\ LET r == AnalizarSentimientosVader(comentarios) IN
       /\ lista_comentarios' = comentarios
       /\ idx' = Len(comentarios) + 1
       /\ counts' = r.counts
       /\ classified_list' = r.classified_list
       /\ response' = [status |-> 200,
                       body |-> [video_id |-> query.video_id,
                                 video_info |-> video_info,
                                 total_comentarios |-> Len(comentarios),
                                 sentimientos |-> r.counts,
                                 lista_comentarios |-> r.classified_list]]
    /\ pc' = "done"
    /\ UNCHANGED <<envVars, query, video_info, prev, builds, metaCalls, metaOutcome,
                   fetcherVars>>

Next ==
    \/ \E q \in Queries : Request(q)
    \/ FetchMetadata
    \/ BeginComments
    \/ SendPage
    \/ ReceivePage
    \/ ClassifyAndRespond

Spec == Init /\ [][Next]_vars

\* The event loop runs a handler that can take a step.
FairSpec == Spec /\ WF_vars(Next)

-----------------------------------------------------------------------------
(* analizar_sentimientos_vader on its own, one loop iteration per step *)

VaderTexts == 0..(Len(ScoreTable) - 1)
VaderInputs == UNION {[1..n -> VaderTexts] : n \in 0..MaxLen}

InitVader ==
    /\ API_KEY = ""
    /\ api = [t \in Tokens0 |-> [raises |-> TRUE, n |-> 0, nextPageToken |-> NoToken]]
    /\ buildOk = TRUE
    /\ pc = "vader"
    /\ query = [has |-> FALSE, video_id |-> ""]
    /\ video_info = None
    /\ comentarios = <<>>
    /\ next_page_token = NoToken
    /\ response = NoResponse
    /\ prev = NoResponse
    /\ builds = 0
    /\ metaCalls = 0
    /\ pageCalls = 0
    /\ nonEmptyPages = 0
    /\ served = <<>>
    /\ fetch = "none"
    /\ metaOutcome = "none"
    /\ lista_comentarios \in VaderInputs
    /\ idx = 1
    /\ counts = InitCounts
    /\ classified_list = <<>>

\* One iteration of the for loop (l.134-151).
ClassifyStep ==
    /\ pc = "vader"
    /\ idx <= Len(lista_comentarios)
    /\ LET st == ClasificarPaso([counts |-> counts, classified_list |-> classified_list],
                                lista_comentarios[idx])
       IN  /\ counts' = st.counts
           /\ classified_list' = st.classified_list
    /\ idx' = idx + 1
    /\ UNCHANGED <<envVars, pc, query, video_info, response, prev, builds, metaCalls,
                   metaOutcome, fetcherVars, lista_comentarios>>

\* return counts, classified_list (l.153)
VaderReturn ==
    /\ pc = "vader"
    /\ idx > Len(lista_comentarios)
    /\ pc' = "vader_returned"
    /\ UNCHANGED <<envVars, query, video_info, response, prev, builds, metaCalls,
                   metaOutcome, fetcherVars, vaderVars>>

NextVader == ClassifyStep \/ VaderReturn

SpecVader == InitVader /\ [][NextVader]_vars

-----------------------------------------------------------------------------
(* Properties of the request pipeline, checked under Spec *)

Accepted == pc # "idle" /\ ValidQuery(query)

\* C1: with an API key configured, a comment fetch in which the client or a
\* page request raised (on the first page or after pages that succeeded) ends
\* the request at once with a 500 that carries no comments, and the
\* classifier has not run; a fetch that returned no comment ends it with a
\* 404; a 200 is answered only after a fetch that returned without error at
\* least one comment.
C1_FetchOutcomeDecidesStatus ==
    ~Falsy(API_KEY) =>
        /\ fetch = "raised" =>
              /\ pc = "done"
              /\ response.status = 500
              /\ DOMAIN response = {"status", "detail"}
              /\ idx = 1 /\ classified_list = <<>> /\ counts = InitCounts
        /\ (fetch = "returned" /\ comentarios = <<>>) =>
              /\ pc = "done"
              /\ response.status = 404
        /\ response.status = 200 =>
              /\ fetch = "returned"
              /\ Len(comentarios) >= 1

\* A page request raised after an earlier page had delivered comments.
C1_Witness ==
    /\ ~Falsy(API_KEY)
    /\ fetch = "raised"
    /\ served # <<>>
    /\ pc = "done"
    /\ response.status = 500

\* C2: with the API key unset no external call is ever issued, the metadata
\* fetch returns None without raising, the comment fetch fails before any
\* client is built, and every accepted request ends with a 503.
C2_NoKeyNoCalls ==
    Falsy(API_KEY) =>
        /\ builds = 0
        /\ metaCalls = 0
        /\ pageCalls = 0
        /\ metaOutcome \in {"none", "not_called"}
        /\ fetch = "none"
        /\ video_info = None
        /\ (Accepted /\ pc = "done") => response.status = 503
        /\ response.status \in {0, 422, 503}

C2_Witness ==
    /\ Falsy(API_KEY)
    /\ Accepted
    /\ pc = "done"
    /\ metaOutcome = "not_called"
    /\ response.status = 503

\* C3: the metadata outcome changes nothing but video_info.  Two accepted
\* requests handled one after the other meet the same comment API; whatever
\* their metadata calls did, they end in the same status, and with the same
\* total_comentarios, sentimientos and lista_comentarios (or the same error
\* detail).  A metadata call that raised or found no video leaves video_info
\* None and the request running, with no response produced by that stage.
C3_MetadataOnlyChangesVideoInfo ==
    /\ (Accepted /\ pc = "done" /\ prev.status # 0) =>
          /\ response.status = prev.status
          /\ IF response.status = 200
             THEN /\ response.body.video_id = prev.body.video_id
                  /\ response.body.total_comentarios = prev.body.total_comentarios
                  /\ response.body.sentimientos = prev.body.sentimientos
                  /\ response.body.lista_comentarios = prev.body.lista_comentarios
             ELSE response = prev
    /\ (metaOutcome \in {"raises", "no_items"} /\ fetch = "none") =>
          /\ pc = "comments"
          /\ response = NoResponse
          /\ video_info = None
    /\ (metaOutcome \in {"raises", "no_items"} /\ response.status = 200) =>
          response.body.video_info = None

\* Two requests answered 200, one after a metadata call that raised and one
\* after a metadata call that delivered a record.
C3_Witness ==
    /\ pc = "done"
    /\ prev.status = 200
    /\ response.status = 200
    /\ metaOutcome = "raises"
    /\ prev.body.video_info # None
    /\ response.body.video_info = None

\* C4: the comment fetch never returns more than 100 comments, and what it
\* returns is the first 100 (or all, when fewer) of the items of the pages
\* the API answered, in page order.
C4_AtMostFirstHundred ==
    fetch = "returned" =>
        /\ Len(comentarios) <= 100
        /\ Len(comentarios) = IF Len(served) > 100 THEN 100 ELSE Len(served)
        /\ \A k \in 1..Len(comentarios) : comentarios[k] = served[k]

\* The pages held more than 100 comments in all.
C4_Witness ==
    /\ fetch = "returned"
    /\ Len(served) > 100
    /\ Len(comentarios) = 100

\* C8: a request whose video_id is missing or not 11 characters long is
\* answered by the validation alone: the handler's stages are never entered
\* and no metadata call and no page call is issued.
C8_InvalidIdNoExternalCall ==
    (~query.has \/ Len(query.video_id) # 11) =>
        /\ pc \in {"idle", "done"}
        /\ builds = 0
        /\ metaCalls = 0
        /\ pageCalls = 0
        /\ metaOutcome = "none"
        /\ fetch = "none"
        /\ pc = "done" => response.status = 422

\* A video_id of the wrong length sent to a server that holds an API key.
C8_Witness ==
    /\ ~Falsy(API_KEY)
    /\ query.has
    /\ Len(query.video_id) # 11
    /\ pc = "done"
    /\ response.status = 422

\* C9: every accepted request is eventually answered.
C9_EveryRequestAnswered == (pc = "meta") ~> (pc = "done")

\* C10 as claimed: at most two page requests are issued during one fetch.
C10_AtMostTwoPageRequests == pageCalls <= 2

\* C10 amended: a page is requested only while fewer than 100 comments are
\* accumulated, so at most 100 page requests of one fetch are answered with
\* at least one item.
C10_PagesWhileUnderHundred ==
    /\ pc \in {"page", "await_page"} => Len(comentarios) < 100
    /\ nonEmptyPages <= 100

\* One hundred page requests, each answered with a single comment.
C10_Witness ==
    /\ nonEmptyPages = 100
    /\ fetch = "returned"

-----------------------------------------------------------------------------
(* Properties of the classifier, checked under SpecVader *)

RECURSIVE SumOver(_, _)
SumOver(f, S) ==
    IF S = {} THEN 0
    ELSE LET l == CHOOSE x \in S : TRUE IN f[l] + SumOver(f, S \ {l})

\* C5: after every loop iteration, and at the return, counts holds exactly
\* the three labels and they add up to the number of comments processed so
\* far; at the return that is the length of the input.
C5_CountsSumToProcessed ==
    pc \in {"vader", "vader_returned"} =>
        /\ DOMAIN counts = {"Positivo", "Neutral", "Negativo"}
        /\ \A l \in DOMAIN counts : counts[l] >= 0
        /\ SumOver(counts, DOMAIN counts) = idx - 1
        /\ pc = "vader_returned" =>
              SumOver(counts, DOMAIN counts) = Len(lista_comentarios)

\* The classifier returned on an input that repeats a comment.
C5_Witness ==
    /\ pc = "vader_returned"
    /\ Len(lista_comentarios) >= 2
    /\ lista_comentarios[1] = lista_comentarios[2]
    /\ counts["Neutral"] >= 2

\* C6: classified_list follows the input: entry k carries the text of input
\* comment k and the label of that comment's own score, and at the return
\* the two lists are equally long.
C6_ClassifiedListFollowsInput ==
    pc \in {"vader", "vader_returned"} =>
        /\ Len(classified_list) = idx - 1
        /\ pc = "vader_returned" => Len(classified_list) = Len(lista_comentarios)
        /\ \A k \in 1..Len(classified_list) :
              LET score == Compound(lista_comentarios[k]) IN
              /\ k <= Len(lista_comentarios)
              /\ classified_list[k].comentario = lista_comentarios[k]
              /\ classified_list[k].sentimiento =
                    IF score >= 500 THEN "Positivo"
                    ELSE IF score <= -500 THEN "Negativo" ELSE "Neutral"

\* The classifier returned on comments of different labels.
C6_Witness ==
    /\ pc = "vader_returned"
    /\ Len(lista_comentarios) >= 2
    /\ classified_list[1].sentimiento = "Negativo"
    /\ classified_list[2].sentimiento = "Positivo"

\* C7: the label is decided by the compound score alone, the thresholds
\* included: 0.05 and above is Positivo, -0.05 and below is Negativo,
\* anything strictly between is Neutral; each comment gets one label and
\* each label's count is the number of comments that got it.
C7_LabelByThresholds ==
    pc \in {"vader", "vader_returned"} =>
        /\ \A k \in 1..Len(classified_list) :
              LET score == Compound(classified_list[k].comentario)
                  label == classified_list[k].sentimiento
              IN  /\ score >= 500 => label = "Positivo"
                  /\ score <= -500 => label = "Negativo"
                  /\ (-500 < score /\ score < 500) => label = "Neutral"
        /\ \A j, k \in 1..Len(classified_list) :
              Compound(classified_list[j].comentario) = Compound(classified_list[k].comentario)
                  => classified_list[j].sentimiento = classified_list[k].sentimiento
        /\ \A l \in {"Positivo", "Neutral", "Negativo"} :
              counts[l] = Cardinality({k \in 1..Len(classified_list) :
                                           classified_list[k].sentimiento = l})

\* The classifier returned on comments scored exactly 0.05, -0.05 and 0.0.
C7_Witness ==
    /\ pc = "vader_returned"
    /\ \E k \in 1..Len(lista_comentarios) : Compound(lista_comentarios[k]) = 500
    /\ \E k \in 1..Len(lista_comentarios) : Compound(lista_comentarios[k]) = -500
    /\ \E k \in 1..Len(lista_comentarios) : Compound(lista_comentarios[k]) = 0

====
